---- MODULE Spec2Model ----
(***************************************************************************)
(* DetailCommand (core/commands/single.py) and the port forwarding rule    *)
(* command with its BindingParser (handlers/pf_rule.py).                   *)
(*                                                                         *)
(* Strings that the code inspects character by character (entry tokens,    *)
(* labels, binding strings) are sequences of one-character strings.        *)
(* Python's None is the one-element sequence None, which is no character   *)
(* sequence.                                                               *)
(***************************************************************************)
EXTENDS Integers, Sequences, FiniteSets, TLC

VARIABLES
    store,      \* persisted PFRule records, by id
    pc,         \* "idle", "built", "failed" (AssertionError in __init__), "done"
    cls,        \* the command class of the running invocation
    args,       \* parsed_args handed to the handler
    via,        \* which handler was entered: take_action, or create/update/delete directly
    ran,        \* the paths (create/update/delete) entered by the handler
    outcome,    \* "ok" or the exception that ended the invocation
    looked,     \* get_objects was called
    instances,  \* ids returned by storage.filter, in storage order
    attempted,  \* ids handed to delete_instance / update_instance, in order
    before,     \* the store when the handler was entered
    pf,         \* forwarding type tag given to the binding parser
    binding,    \* binding string given to the binding parser
    parsed      \* result of the binding parser

vars == <<store, pc, cls, args, via, ran, outcome, looked, instances,
          attempted, before, pf, binding, parsed>>

cmdVars == <<store, pc, cls, args, via, ran, outcome, looked, instances,
             attempted, before>>

parserVars == <<pf, binding, parsed>>

-----------------------------------------------------------------------------
(* Bounds *)

MaxEntry == 2       \* longest entry token list
MaxRules == 2       \* most rules the store holds
MaxLen == 7         \* longest binding string given to the parser alone

-----------------------------------------------------------------------------
(* Values *)

None == <<"None">>

Digits == {"0", "1", "2"}

\* \w of the regular expressions: letters, digits, underscore
WordChars == Digits \cup {"a", "w", "h", "x", "_"}

\* Characters of the binding strings given to the parser alone
Alphabet == {"1", "a", ".", ":", "\n"}

RECURSIVE SeqsUpTo(_, _)
SeqsUpTo(S, n) ==
    IF n = 0 THEN {<<>>}
    ELSE LET shorter == SeqsUpTo(S, n - 1)
         IN  shorter \cup {Append(s, c) : s \in {t \in shorter : Len(t) = n - 1}, c \in S}

Range(s) == {s[i] : i \in 1..Len(s)}

-----------------------------------------------------------------------------
(* BindingParser *)

\* \d+
IsDigits(f) == Len(f) > 0 /\ \A i \in 1..Len(f) : f[i] \in Digits

\* [\w.]+
IsWordDots(f) == Len(f) > 0 /\ \A i \in 1..Len(f) : f[i] \in WordChars \cup {"."}

\* The pieces of s between its colons.
RECURSIVE Split(_)
Split(s) ==
    IF \A i \in 1..Len(s) : s[i] # ":" THEN <<s>>
    ELSE LET k == CHOOSE i \in 1..Len(s) :
                      s[i] = ":" /\ \A j \in 1..(i - 1) : s[j] # ":"
         IN  <<SubSeq(s, 1, k - 1)>> \o Split(SubSeq(s, k + 1, Len(s)))

\* Where "$" can match: at the end of the string, and before a newline that
\* is the string's last character.
DollarEnds(s) ==
    {s} \cup (IF Len(s) > 0 /\ s[Len(s)] = "\n"
              THEN {SubSeq(s, 1, Len(s) - 1)} ELSE {})

NoMatch == [matched |-> FALSE, bound_address |-> None, local_port |-> None,
            hostname |-> None, remote_port |-> None]

Groups(ba, lp, hn, rp) ==
    [matched |-> TRUE, bound_address |-> ba, local_port |-> lp,
     hostname |-> hn, remote_port |-> rp]

\* local_pf_re matched against the text up to "$"
local_pf_body(t) ==
    LET f == Split(t)
    IN  IF Len(f) = 4 /\ IsWordDots(f[1]) /\ IsDigits(f[2])
                      /\ IsWordDots(f[3]) /\ IsDigits(f[4])
        THEN Groups(f[1], f[2], f[3], f[4])
        ELSE IF Len(f) = 3 /\ IsDigits(f[1]) /\ IsWordDots(f[2]) /\ IsDigits(f[3])
        THEN Groups(None, f[1], f[2], f[3])
        ELSE NoMatch

\* dynamic_pf_re matched against the text up to "$"
dynamic_pf_body(t) ==
    LET f == Split(t)
    IN  IF Len(f) = 2 /\ IsWordDots(f[1]) /\ IsDigits(f[2])
        THEN Groups(f[1], f[2], <<>>, <<>>)
        ELSE IF Len(f) = 1 /\ IsDigits(f[1])
        THEN Groups(None, f[1], <<>>, <<>>)
        ELSE NoMatch

FirstMatch(S) == IF \E m \in S : m.matched
                 THEN CHOOSE m \in S : m.matched ELSE NoMatch

local_pf_re(s) == FirstMatch({local_pf_body(t) : t \in DollarEnds(s)})

dynamic_pf_re(s) == FirstMatch({dynamic_pf_body(t) : t \in DollarEnds(s)})

\* No parser has run yet.
Pending == [err |-> "pending", bound_address |-> None, local_port |-> None,
            hostname |-> None, remote_port |-> None]

\* BindingParser._parse: the groupdict, or InvalidBinding
ParseResult(m) ==
    IF m.matched
    THEN [err |-> "ok", bound_address |-> m.bound_address, local_port |-> m.local_port,
          hostname |-> m.hostname, remote_port |-> m.remote_port]
    ELSE [err |-> "InvalidBinding", bound_address |-> None, local_port |-> None,
          hostname |-> None, remote_port |-> None]

BindingParser_local(s) == ParseResult(local_pf_re(s))

BindingParser_remote(s) == BindingParser_local(s)

BindingParser_dynamic(s) == ParseResult(dynamic_pf_re(s))

\* PFRuleCommand.binding_parsers / parse_binding
parse_binding(pf_type, s) ==
    CASE pf_type = "D" -> BindingParser_dynamic(s)
      [] pf_type = "L" -> BindingParser_local(s)
      [] pf_type = "R" -> BindingParser_remote(s)

-----------------------------------------------------------------------------
(* Storage and relations (collaborators of the command) *)

\* Host records in storage: one host, labelled "h"; no host is named "x"
Hosts == {[id |-> 1, label |-> <<"h">>]}

\* int(token) of an all-digit token
RECURSIVE ToInt(_)
ToInt(t) ==
    IF Len(t) = 0 THEN 0
    ELSE 10 * ToInt(SubSeq(t, 1, Len(t) - 1))
         + (CASE t[Len(t)] = "0" -> 0 [] t[Len(t)] = "1" -> 1 [] t[Len(t)] = "2" -> 2)

\* str.isdigit()
isdigit(t) == IsDigits(t)

\* The ids of a set, ascending: the order storage lists records in.
RECURSIVE Ascending(_)
Ascending(S) ==
    IF S = {} THEN <<>>
    ELSE LET m == CHOOSE x \in S : \A y \in S : x <= y
         IN  <<m>> \o Ascending(S \ {m})

\* storage.filter(model_class, any, id.rcontains=ids, label.rcontains=names)
storage_filter(st, ids, names) ==
    Ascending({e \in DOMAIN st : e \in Range(ids) \/ st[e].label \in Range(names)})

\* GetRelationMixin.get_relation(Host, token)
get_relation(token) ==
    LET found == {h \in Hosts : (isdigit(token) /\ h.id = ToInt(token)) \/ h.label = token}
    IN  IF Cardinality(found) = 1
        THEN [err |-> "ok", host |-> (CHOOSE h \in found : TRUE).id]
        ELSE IF found = {} THEN [err |-> "DoesNotExist", host |-> 0]
        ELSE [err |-> "TooManyEntries", host |-> 0]

\* storage.save of a new record: the id storage assigns
NewId(st) == CHOOSE n \in 1..(Cardinality(DOMAIN st) + 1) : n \notin DOMAIN st

storage_save(st, id, rule) == [e \in DOMAIN st \cup {id} |-> IF e = id THEN rule ELSE st[e]]

storage_delete(st, id) == [e \in DOMAIN st \ {id} |-> st[e]]

-----------------------------------------------------------------------------
(* PFRuleCommand *)

\* PFRule()
PFRule == [label |-> None, pf_type |-> "None", host |-> 0,
           bound_address |-> None, local_port |-> None,
           hostname |-> None, remote_port |-> None]

\* Python truth value of an optional string argument
Truthy(s) == s # None /\ s # <<>>

\* for key, value in binding_dict.items(): setattr(pfrule, key, value)
SetBinding(rule, b) ==
    [rule EXCEPT !.bound_address = b.bound_address, !.local_port = b.local_port,
                 !.hostname = b.hostname, !.remote_port = b.remote_port]

\* PFRuleCommand.serialize_args, from "pfrule.pf_type = ..." on
serialize_fields(a, pfrule, host) ==
    LET typed == [pfrule EXCEPT
                    !.pf_type = IF a.type # "None" THEN a.type ELSE pfrule.pf_type,
                    !.host = host]
    IN  IF ~Truthy(a.binding) THEN [err |-> "ok", rule |-> typed]
        ELSE IF typed.pf_type \notin {"D", "L", "R"}
        THEN [err |-> "KeyError", rule |-> typed]
        ELSE LET b == parse_binding(typed.pf_type, a.binding)
             IN  IF b.err # "ok" THEN [err |-> b.err, rule |-> typed]
                 ELSE [err |-> "ok", rule |-> SetBinding(typed, b)]

\* PFRuleCommand.serialize_args(args, instance=None): the new rule
serialize_new(a) ==
    LET rel == get_relation(a.host)
    IN  IF rel.err # "ok" THEN [err |-> rel.err, rule |-> PFRule]
        ELSE IF a.type = "None" THEN [err |-> "ArgumentRequired", rule |-> PFRule]
        ELSE serialize_fields(a, PFRule, rel.host)

\* PFRuleCommand.serialize_args(args, instance)
serialize_instance(a, inst) == serialize_fields(a, inst, inst.host)

\* required_options = RequiredOptions(create=('host', 'binding'))
RequiredCreate(a) == Truthy(a.host) /\ Truthy(a.binding)

-----------------------------------------------------------------------------
(* DetailCommand *)

all_operations == {"delete", "update", "create"}

\* DetailCommand.allowed_operations, inherited by a class that sets none
DetailCommand_allowed_operations == {}

is_allow_delete(allowed) == "delete" \in allowed

is_allow_update(allowed) == "update" \in allowed

is_allow_create(allowed) == "create" \in allowed

\* The arguments DetailCommand.get_parser adds for an allowed-operation set
get_parser(allowed) ==
    (IF is_allow_delete(allowed) THEN {"delete"} ELSE {})
    \cup (IF is_allow_create(allowed) \/ is_allow_update(allowed)
          THEN {"interactive", "label"} ELSE {})
    \cup (IF is_allow_delete(allowed) \/ is_allow_update(allowed)
          THEN {"entry"} ELSE {})

\* The arguments PFRuleCommand.extend_parser adds
extend_parser == {"host", "type", "binding"}

\* parse_ids_names with the digit tokens kept out of the names
parse_ids_names_split(ids__names) ==
    [ids |-> SelectSeq(ids__names, isdigit),
     names |-> SelectSeq(ids__names, LAMBDA t : ~isdigit(t))]

\* DetailCommand.parse_ids_names
parse_ids_names(ids__names) ==
    [ids |-> SelectSeq(ids__names, isdigit), names |-> ids__names]

IntIds(ids) == [i \in 1..Len(ids) |-> ToInt(ids[i])]

\* DetailCommand.get_objects
get_objects(st, ids__names) ==
    LET p == parse_ids_names(ids__names)
        found == storage_filter(st, IntIds(p.ids), p.names)
    IN  IF found = <<>> THEN [err |-> "DoesNotExist", instances |-> found]
        ELSE [err |-> "ok", instances |-> found]

\* What a handler leaves behind
Result(o, st, r, l, i, a) ==
    [outcome |-> o, store |-> st, ran |-> r, looked |-> l, instances |-> i, attempted |-> a]

\* InstanceOpertionMixin.create
create(st, a) ==
    LET s == serialize_new(a)
    IN  IF s.err # "ok" THEN Result(s.err, st, {"create"}, FALSE, <<>>, <<>>)
        ELSE IF ~RequiredCreate(a)
        THEN Result("ArgumentRequired", st, {"create"}, FALSE, <<>>, <<>>)
        ELSE Result("ok", storage_save(st, NewId(st), s.rule), {"create"}, FALSE, <<>>, <<>>)

\* InstanceOpertionMixin.update_instance
update_instance(st, a, id) ==
    LET s == serialize_instance(a, st[id])
    IN  IF s.err # "ok" THEN [err |-> s.err, store |-> st]
        ELSE [err |-> "ok", store |-> storage_save(st, id, s.rule)]

\* InstanceOpertionMixin.delete_instance
\* bad: the id whose storage delete raises (0: none does)
delete_instance(st, id, bad) ==
    IF id = bad THEN [err |-> "StorageError", store |-> st]
    ELSE [err |-> "ok", store |-> storage_delete(st, id)]

\* for i in instances: self.update_instance(parsed_args, i)
RECURSIVE update_loop(_, _, _, _, _)
update_loop(st, a, found, k, done) ==
    IF k > Len(found) THEN Result("ok", st, {"update"}, TRUE, found, done)
    ELSE LET u == update_instance(st, a, found[k])
         IN  IF u.err # "ok"
             THEN Result(u.err, st, {"update"}, TRUE, found, Append(done, found[k]))
             ELSE update_loop(u.store, a, found, k + 1, Append(done, found[k]))

\* DetailCommand.update
update(st, a) ==
    IF "entry" \notin a.attrs THEN Result("AttributeError", st, {"update"}, FALSE, <<>>, <<>>)
    ELSE IF a.entry = <<>>
    THEN Result("ArgumentRequired", st, {"update"}, FALSE, <<>>, <<>>)
    ELSE LET g == get_objects(st, a.entry)
         IN  IF g.err # "ok" THEN Result(g.err, st, {"update"}, TRUE, g.instances, <<>>)
             ELSE update_loop(st, a, g.instances, 1, <<>>)

\* The delete loop going on after a deletion that raised
RECURSIVE delete_loop_continue(_, _, _, _, _)
delete_loop_continue(st, found, k, done, bad) ==
    IF k > Len(found)
    THEN Result(IF bad \in Range(found) THEN "StorageError" ELSE "ok",
                st, {"delete"}, TRUE, found, done)
    ELSE delete_loop_continue(delete_instance(st, found[k], bad).store, found, k + 1,
                              Append(done, found[k]), bad)

\* for i in instances: self.delete_instance(i)
RECURSIVE delete_loop(_, _, _, _, _)
delete_loop(st, found, k, done, bad) ==
    IF k > Len(found) THEN Result("ok", st, {"delete"}, TRUE, found, done)
    ELSE LET d == delete_instance(st, found[k], bad)
         IN  IF d.err # "ok"
             THEN Result(d.err, st, {"delete"}, TRUE, found, Append(done, found[k]))
             ELSE delete_loop(d.store, found, k + 1, Append(done, found[k]), bad)

\* delete without the check for an empty entry list
delete_unchecked(st, a, bad) ==
    IF "entry" \notin a.attrs THEN Result("AttributeError", st, {"delete"}, FALSE, <<>>, <<>>)
    ELSE LET g == get_objects(st, a.entry)
         IN  IF g.err # "ok" THEN Result(g.err, st, {"delete"}, TRUE, g.instances, <<>>)
             ELSE delete_loop(st, g.instances, 1, <<>>, bad)

\* DetailCommand.delete
delete(st, a, bad) ==
    IF "entry" \notin a.attrs THEN Result("AttributeError", st, {"delete"}, FALSE, <<>>, <<>>)
    ELSE IF a.entry = <<>>
    THEN Result("ArgumentRequired", st, {"delete"}, FALSE, <<>>, <<>>)
    ELSE LET g == get_objects(st, a.entry)
         IN  IF g.err # "ok" THEN Result(g.err, st, {"delete"}, TRUE, g.instances, <<>>)
             ELSE delete_loop(st, g.instances, 1, <<>>, bad)

Nothing(o, st) == Result(o, st, {}, FALSE, <<>>, <<>>)

\* take_action testing the create branch before the delete branch
take_action_create_first(st, allowed, a, bad) ==
    IF is_allow_create(allowed) /\ "entry" \notin a.attrs THEN Nothing("AttributeError", st)
    ELSE IF is_allow_create(allowed) /\ a.entry = <<>> THEN create(st, a)
    ELSE IF is_allow_delete(allowed) /\ "delete" \notin a.attrs
    THEN Nothing("AttributeError", st)
    ELSE IF is_allow_delete(allowed) /\ a.delete THEN delete(st, a, bad)
    ELSE IF is_allow_update(allowed) /\ "entry" \notin a.attrs
    THEN Nothing("AttributeError", st)
    ELSE IF is_allow_update(allowed) /\ a.entry # <<>> THEN update(st, a)
    ELSE Nothing("ok", st)

\* take_action entering update without asking whether update is allowed
take_action_ungated(st, allowed, a, bad) ==
    IF is_allow_delete(allowed) /\ "delete" \notin a.attrs THEN Nothing("AttributeError", st)
    ELSE IF is_allow_delete(allowed) /\ a.delete THEN delete(st, a, bad)
    ELSE IF is_allow_create(allowed) /\ "entry" \notin a.attrs
    THEN Nothing("AttributeError", st)
    ELSE IF is_allow_create(allowed) /\ a.entry = <<>> THEN create(st, a)
    ELSE IF "entry" \notin a.attrs THEN Nothing("AttributeError", st)
    ELSE IF a.entry # <<>> THEN update(st, a)
    ELSE Nothing("ok", st)

\* DetailCommand.take_action
take_action(st, allowed, a, bad) ==
    IF is_allow_delete(allowed) /\ "delete" \notin a.attrs THEN Nothing("AttributeError", st)
    ELSE IF is_allow_delete(allowed) /\ a.delete THEN delete(st, a, bad)
    ELSE IF is_allow_create(allowed) /\ "entry" \notin a.attrs
    THEN Nothing("AttributeError", st)
    ELSE IF is_allow_create(allowed) /\ a.entry = <<>> THEN create(st, a)
    ELSE IF is_allow_update(allowed) /\ "entry" \notin a.attrs
    THEN Nothing("AttributeError", st)
    ELSE IF is_allow_update(allowed) /\ a.entry # <<>> THEN update(st, a)
    ELSE Nothing("ok", st)

-----------------------------------------------------------------------------
(* Inputs *)

\* "01" is all digits and reads as the id 1; it is also the label of RuleOne.
Tokens == {<<"0", "1">>, <<"w">>}

EntryLists == SeqsUpTo(Tokens, MaxEntry)

\* parsed_args: attrs are the attributes, among delete and entry, the
\* namespace has (the arguments of extend_parser are always there).
Namespaces ==
    {[attrs |-> at, delete |-> d, entry |-> e, type |-> t, host |-> h, binding |-> b] :
        at \in SUBSET {"delete", "entry"}, d \in BOOLEAN, e \in EntryLists,
        t \in {"None", "D", "L", "R"}, h \in {None, <<"h">>, <<"x">>},
        b \in {None, <<"1">>, <<"1", ":", "a", ":", "1">>}}

WellFormed(a) ==
    /\ "delete" \notin a.attrs => a.delete = FALSE
    /\ "entry" \notin a.attrs => a.entry = <<>>

\* The namespace the parser of get_parser gives a command
FromParser(a, allowed) == a.attrs = get_parser(allowed) \cap {"delete", "entry"}

NoArgs == [attrs |-> {}, delete |-> FALSE, entry |-> <<>>, type |-> "None",
           host |-> None, binding |-> None]

\* The command classes: PFRuleCommand, which sets no allowed_operations, and
\* subclasses of it that set their own.
PFRuleCommand == [name |-> "PFRuleCommand", allowed |-> DetailCommand_allowed_operations]

Classes == {PFRuleCommand}
           \cup {[name |-> "subclass", allowed |-> a] : a \in SUBSET all_operations}

RuleWeb == [label |-> <<"w">>, pf_type |-> "L", host |-> 1,
            bound_address |-> None, local_port |-> <<"1">>,
            hostname |-> <<"a">>, remote_port |-> <<"1">>]

RuleOne == [label |-> <<"0", "1">>, pf_type |-> "D", host |-> 1,
            bound_address |-> None, local_port |-> <<"1">>,
            hostname |-> <<>>, remote_port |-> <<>>]

InitStores == {<<>>, <<RuleOne>>, <<RuleWeb, RuleOne>>}

-----------------------------------------------------------------------------
(* The invocations *)

Init ==
    /\ store \in InitStores
    /\ pc = "idle"
    /\ cls = PFRuleCommand
    /\ args = NoArgs
    /\ via = "none"
    /\ ran = {}
    /\ outcome = "ok"
    /\ looked = FALSE
    /\ instances = <<>>
    /\ attempted = <<>>
    /\ before = store
    /\ pf = "D"
    /\ binding = <<>>
    /\ parsed = Pending

\* DetailCommand.__init__
Construct(c) ==
    /\ pc = "idle"
    /\ cls' = c
    /\ IF all_operations \cap c.allowed # {}
       THEN pc' = "built" /\ outcome' = "ok"
       ELSE pc' = "failed" /\ outcome' = "AssertionError"
    /\ UNCHANGED <<store, args, via, ran, looked, instances, attempted, before>>
    /\ UNCHANGED parserVars

Finish(h, a, R) ==
    /\ Cardinality(DOMAIN R.store) <= MaxRules
    /\ pc' = "done"
    /\ args' = a
    /\ via' = h
    /\ before' = store
    /\ store' = R.store
    /\ ran' = R.ran
    /\ outcome' = R.outcome
    /\ looked' = R.looked
    /\ instances' = R.instances
    /\ attempted' = R.attempted
    /\ UNCHANGED cls
    /\ UNCHANGED parserVars

TakeAction(a, bad) ==
    /\ pc = "built"
    /\ Finish("take_action", a, take_action(store, cls.allowed, a, bad))

Create(a) ==
    /\ pc = "built"
    /\ Finish("create", a, create(store, a))

Update(a) ==
    /\ pc = "built"
    /\ Finish("update", a, update(store, a))

Delete(a, bad) ==
    /\ pc = "built"
    /\ Finish("delete", a, delete(store, a, bad))

\* The process ends; the store stays.
Exit ==
    /\ pc \in {"done", "failed"}
    /\ pc' = "idle"
    /\ cls' = PFRuleCommand
    /\ args' = NoArgs
    /\ via' = "none"
    /\ ran' = {}
    /\ outcome' = "ok"
    /\ looked' = FALSE
    /\ instances' = <<>>
    /\ attempted' = <<>>
    /\ before' = store
    /\ UNCHANGED store
    /\ UNCHANGED parserVars

\* Inputs of the dispatch: every namespace shape, with the forwarding
\* arguments either all absent or those of one valid local rule.
Inputs ==
    {a \in Namespaces :
        /\ WellFormed(a)
        /\ <<a.type, a.host, a.binding>> \in
               {<<"None", None, None>>, <<"L", <<"h">>, <<"1", ":", "a", ":", "1">> >>}}

\* Inputs of the forwarding rule serializer: every combination of the
\* forwarding arguments, with at most one entry token.
PFInputs ==
    {a \in Namespaces :
        /\ WellFormed(a)
        /\ a.attrs = {"delete", "entry"}
        /\ Len(a.entry) <= 1}

Next ==
    \/ \E c \in Classes : Construct(c)
    \/ \E a \in Inputs, bad \in {0} \cup DOMAIN store : TakeAction(a, bad)
    \/ \E a \in Inputs : Create(a)
    \/ \E a \in Inputs : Update(a)
    \/ \E a \in Inputs, bad \in {0} \cup DOMAIN store : Delete(a, bad)
    \/ Exit

Spec == Init /\ [][Next]_vars

-----------------------------------------------------------------------------
(* The forwarding rule command alone *)

NextPF ==
    \/ \E c \in Classes : Construct(c)
    \/ \E a \in PFInputs, bad \in {0} \cup DOMAIN store : TakeAction(a, bad)
    \/ Exit

SpecPF == Init /\ [][NextPF]_vars

-----------------------------------------------------------------------------
(* The binding parser alone *)

BindingStrings == SeqsUpTo(Alphabet, MaxLen)

InitBinding ==
    /\ store = <<>>
    /\ pc = "idle"
    /\ cls = PFRuleCommand
    /\ args = NoArgs
    /\ via = "none"
    /\ ran = {}
    /\ outcome = "ok"
    /\ looked = FALSE
    /\ instances = <<>>
    /\ attempted = <<>>
    /\ before = store
    /\ pf \in {"D", "L", "R"}
    /\ binding \in BindingStrings
    /\ parsed = Pending

\* PFRuleCommand.parse_binding(pf_type, binding)
ParseBinding ==
    /\ parsed = Pending
    /\ parsed' = parse_binding(pf, binding)
    /\ UNCHANGED <<pf, binding>>
    /\ UNCHANGED cmdVars

NextBinding == ParseBinding

SpecBinding == InitBinding /\ [][NextBinding]_vars

-----------------------------------------------------------------------------
(* Properties *)

Dispatched == pc = "done" /\ via = "take_action"

\* The ordered rule of the dispatch, on the delete flag and the entry tokens
SelectedPath(allowed, deleteFlag, hasEntries) ==
    CASE "delete" \in allowed /\ deleteFlag -> {"delete"}
      [] ~("delete" \in allowed /\ deleteFlag)
           /\ "create" \in allowed /\ ~hasEntries -> {"create"}
      [] ~("delete" \in allowed /\ deleteFlag)
           /\ ~("create" \in allowed /\ ~hasEntries)
           /\ "update" \in allowed /\ hasEntries -> {"update"}
      [] OTHER -> {}

C2_OnlyAllowed ==
    Dispatched =>
        /\ ran \subseteq cls.allowed
        /\ (cls.allowed = {"create"} /\ "entry" \in args.attrs /\ args.entry # <<>>) =>
              (ran = {} /\ outcome = "ok" /\ store = before)

C2_Witness ==
    /\ Dispatched
    /\ cls.allowed = {"create"}
    /\ "entry" \in args.attrs
    /\ args.entry # <<>>
    /\ ran = {}
    /\ outcome = "ok"
    /\ before # <<>>

\* C3: update or delete entered with an empty entry list raises
\* ArgumentRequired, whatever else is allowed or flagged, before any lookup,
\* mutation or deletion.
C3_EntryRequired ==
    (pc = "done" /\ ran \cap {"update", "delete"} # {}
        /\ "entry" \in args.attrs /\ args.entry = <<>>) =>
        /\ outcome = "ArgumentRequired"
        /\ ~looked
        /\ attempted = <<>>
        /\ store = before

C3_Witness ==
    /\ Dispatched
    /\ cls.allowed = all_operations
    /\ ran = {"delete"}
    /\ args.delete
    /\ args.entry = <<>>
    /\ args.type = "L"
    /\ before # <<>>
    /\ outcome = "ArgumentRequired"

DeleteFailed == pc = "done" /\ ran = {"delete"} /\ outcome = "StorageError"

\* C4 as claimed: when deleting one resolved entity fails, the deletion of
\* every other resolved entity is still attempted.
C4_AllAttempted ==
    DeleteFailed => Range(attempted) = Range(instances)

\* C4 as amended: the failure ends the delete at the entity that failed; the
\* resolved entities before it are gone from the store, the failing one and
\* those after it are still stored and those after it were never attempted.
C4_StopsAtFailure ==
    DeleteFailed =>
        \E k \in 1..Len(instances) :
            /\ attempted = SubSeq(instances, 1, k)
            /\ \A j \in 1..(k - 1) : instances[j] \notin DOMAIN store
            /\ \A j \in k..Len(instances) :
                  /\ instances[j] \in DOMAIN store
                  /\ store[instances[j]] = before[instances[j]]

C4_Witness ==
    /\ DeleteFailed
    /\ Len(instances) >= 2
    /\ Len(attempted) < Len(instances)

\* C5: construction fails exactly when allowed_operations shares nothing
\* with {create, update, delete}, and the port forwarding command has a
\* non-empty allowed-operation set.
C5_Construction ==
    pc # "idle" =>
        /\ (pc = "failed") <=> (cls.allowed \cap {"create", "update", "delete"} = {})
        /\ cls = PFRuleCommand => cls.allowed \cap {"create", "update", "delete"} # {}

\* The entities of st a token list names: by id through an all-digit token
\* read as an integer, or by label through any token
Named(st, tokens) ==
    {e \in DOMAIN st :
        \/ \E i \in 1..Len(tokens) : IsDigits(tokens[i]) /\ ToInt(tokens[i]) = e
        \/ \E i \in 1..Len(tokens) : st[e].label = tokens[i]}

\* C6: get_objects returns exactly the stored entities named by id or by
\* label, each once, and raises DoesNotExist exactly when there are none.
C6_Lookup ==
    (pc = "done" /\ looked) =>
        /\ Range(instances) = Named(before, args.entry)
        /\ \A i, j \in 1..Len(instances) : instances[i] = instances[j] => i = j
        /\ (outcome = "DoesNotExist") <=> (Named(before, args.entry) = {})

\* One token, all digits and also a label: one entity by id, another by label.
C6_Witness ==
    /\ pc = "done"
    /\ looked
    /\ args.entry = << <<"0", "1">> >>
    /\ instances = <<1, 2>>
    /\ before[2].label = <<"0", "1">>

AlnumDots(f) == Len(f) > 0 /\ \A i \in 1..Len(f) : f[i] \in {"1", "a", "."}

Numeric(f) == Len(f) > 0 /\ \A i \in 1..Len(f) : f[i] = "1"

\* [bound_address:]local_port:hostname:remote_port
LocalShape(s) ==
    LET f == Split(s)
    IN  \/ Len(f) = 3 /\ Numeric(f[1]) /\ AlnumDots(f[2]) /\ Numeric(f[3])
        \/ Len(f) = 4 /\ AlnumDots(f[1]) /\ Numeric(f[2]) /\ AlnumDots(f[3]) /\ Numeric(f[4])

\* [bound_address:]local_port
DynamicShape(s) ==
    LET f == Split(s)
    IN  \/ Len(f) = 1 /\ Numeric(f[1])
        \/ Len(f) = 2 /\ AlnumDots(f[1]) /\ Numeric(f[2])

HasShape(t, s) == IF t = "D" THEN DynamicShape(s) ELSE LocalShape(s)

\* C7: the parser of a forwarding type accepts exactly the strings of that
\* type's shape and raises InvalidBinding on the others; a dynamic result
\* has empty hostname and remote_port; remote parses as local does.
C7_ParserAccepts ==
    parsed # Pending =>
        /\ (parsed.err = "ok") <=> HasShape(pf, binding)
        /\ (parsed.err # "ok") <=> (parsed.err = "InvalidBinding")
        /\ (parsed.err = "ok" /\ pf = "D") =>
              (parsed.hostname = <<>> /\ parsed.remote_port = <<>>)
        /\ pf = "R" => parsed = BindingParser_local(binding)

\* C8: create on the port forwarding command without a type flag raises
\* ArgumentRequired, whatever host and binding are, and persists nothing.
C8_TypeRequired ==
    (pc = "done" /\ ran = {"create"} /\ args.type = "None") =>
        (outcome = "ArgumentRequired" /\ store = before)

\* C9: get_parser exposes delete iff delete is allowed, interactive and
\* label iff create or update is, entry iff delete or update is; and
\* take_action, given the namespace of that parser, reads no attribute the
\* parser did not expose.
C9_Surface ==
    /\ \A allowed \in SUBSET all_operations :
          /\ "delete" \in get_parser(allowed) <=> "delete" \in allowed
          /\ "interactive" \in get_parser(allowed) <=> allowed \cap {"create", "update"} # {}
          /\ "label" \in get_parser(allowed) <=> allowed \cap {"create", "update"} # {}
          /\ "entry" \in get_parser(allowed) <=> allowed \cap {"delete", "update"} # {}
    /\ (Dispatched /\ FromParser(args, cls.allowed)) => outcome # "AttributeError"

Unset(v) == v = None \/ v = <<>>

\* C10: every stored dynamic rule has empty hostname and remote_port, and
\* every stored local or remote rule with binding fields set has both
\* non-empty.
C10_FieldsMatchType ==
    \A e \in DOMAIN store :
        /\ store[e].pf_type = "D" =>
              (Unset(store[e].hostname) /\ Unset(store[e].remote_port))
        /\ (store[e].pf_type \in {"L", "R"} /\ store[e].local_port # None) =>
              (~Unset(store[e].hostname) /\ ~Unset(store[e].remote_port))

====
